---- MODULE Spec2Model ----
(***************************************************************************)
(* A model of dami_utils.drawio.DrawIO: an editor holding one XML         *)
(* document (self.root) and a cached reference to its diagram node        *)
(* (self.diagram), with the files it loads from and saves to.              *)
(*                                                                         *)
(* Strings are sequences of one-character strings, so that escaping,       *)
(* base64 and str() are computed character by character.  An optional      *)
(* value is <<>> (Python's None) or <<x>>.                                 *)
(***************************************************************************)
EXTENDS Integers, Sequences, FiniteSets, TLC

VARIABLES root, diagram, fs, last

vars == <<root, diagram, fs, last>>

None == <<>>

Some(x) == <<x>>

(***************************************************************************)
(* Bounds of the model.                                                    *)
(***************************************************************************)
\* add_element and insert_latex_equation are called only while the held
\* diagram has fewer than MaxCells cells.
MaxCells == 3

\* The same cap in the specification that also writes files.
MaxFileCells == 3

\* The same cap in the specification of insertions and removals.
MaxLatexCells == 4

(***************************************************************************)
(* Strings.                                                                *)
(***************************************************************************)
\* The strings of ss joined, by halves.
RECURSIVE Concat(_)
Concat(ss) ==
    IF Len(ss) = 0 THEN <<>>
    ELSE IF Len(ss) = 1 THEN ss[1]
    ELSE LET half == Len(ss) \div 2
         IN  Concat(SubSeq(ss, 1, half)) \o Concat(SubSeq(ss, half + 1, Len(ss)))

\* Printable ASCII, code 32 first (two characters no string of the model
\* uses are spelled out).
AsciiTable ==
    << " ", "!", "\"", "#", "$", "%", "&", "'", "(", ")", "*", "+", ",", "-",
       ".", "/", "0", "1", "2", "3", "4", "5", "6", "7", "8", "9", ":", ";",
       "<", "=", ">", "?", "@", "A", "B", "C", "D", "E", "F", "G", "H", "I",
       "J", "K", "L", "M", "N", "O", "P", "Q", "R", "S", "T", "U", "V", "W",
       "X", "Y", "Z", "[", "backslash", "]", "^", "_", "backquote", "a", "b", "c", "d", "e",
       "f", "g", "h", "i", "j", "k", "l", "m", "n", "o", "p", "q", "r", "s",
       "t", "u", "v", "w", "x", "y", "z", "{", "|", "}", "~" >>

\* "\n" is the one control character the model's strings use.
Ord(c) == IF c = "\n" THEN 10
          ELSE 31 + (CHOOSE i \in 1..Len(AsciiTable) : AsciiTable[i] = c)

\* str.encode('utf-8') on ASCII text: one byte per character.
EncodeUtf8(s) == [i \in 1..Len(s) |-> Ord(s[i])]

B64Alphabet ==
    << "A", "B", "C", "D", "E", "F", "G", "H", "I", "J", "K", "L", "M", "N",
       "O", "P", "Q", "R", "S", "T", "U", "V", "W", "X", "Y", "Z", "a", "b",
       "c", "d", "e", "f", "g", "h", "i", "j", "k", "l", "m", "n", "o", "p",
       "q", "r", "s", "t", "u", "v", "w", "x", "y", "z", "0", "1", "2", "3",
       "4", "5", "6", "7", "8", "9", "+", "/" >>

B64Digit(n) == B64Alphabet[n + 1]

\* base64 without the padding of a short tail.
RECURSIVE B64EncodeUnpadded(_)
B64EncodeUnpadded(bytes) ==
    IF Len(bytes) = 0 THEN <<>>
    ELSE IF Len(bytes) = 1 THEN
        << B64Digit(bytes[1] \div 4), B64Digit((bytes[1] % 4) * 16) >>
    ELSE IF Len(bytes) = 2 THEN
        << B64Digit(bytes[1] \div 4),
           B64Digit((bytes[1] % 4) * 16 + bytes[2] \div 16),
           B64Digit((bytes[2] % 16) * 4) >>
    ELSE
        << B64Digit(bytes[1] \div 4),
           B64Digit((bytes[1] % 4) * 16 + bytes[2] \div 16),
           B64Digit((bytes[2] % 16) * 4 + bytes[3] \div 64),
           B64Digit(bytes[3] % 64) >>
        \o B64EncodeUnpadded(SubSeq(bytes, 4, Len(bytes)))

\* base64.b64encode: three bytes make four digits; a tail of one or two
\* bytes is padded with "=".
RECURSIVE B64Encode(_)
B64Encode(bytes) ==
    IF Len(bytes) = 0 THEN <<>>
    ELSE IF Len(bytes) = 1 THEN
        << B64Digit(bytes[1] \div 4), B64Digit((bytes[1] % 4) * 16), "=", "=" >>
    ELSE IF Len(bytes) = 2 THEN
        << B64Digit(bytes[1] \div 4),
           B64Digit((bytes[1] % 4) * 16 + bytes[2] \div 16),
           B64Digit((bytes[2] % 16) * 4), "=" >>
    ELSE
        << B64Digit(bytes[1] \div 4),
           B64Digit((bytes[1] % 4) * 16 + bytes[2] \div 16),
           B64Digit((bytes[2] % 16) * 4 + bytes[3] \div 64),
           B64Digit(bytes[3] % 64) >>
        \o B64Encode(SubSeq(bytes, 4, Len(bytes)))

DecDigits == << "0", "1", "2", "3", "4", "5", "6", "7", "8", "9" >>

RECURSIVE NatToStr(_)
NatToStr(n) == IF n < 10 THEN << DecDigits[n + 1] >>
               ELSE NatToStr(n \div 10) \o << DecDigits[(n % 10) + 1] >>

\* str(n) of a Python int.
IntToStr(n) == IF n < 0 THEN << "-" >> \o NatToStr(0 - n) ELSE NatToStr(n)

(***************************************************************************)
(* XML attribute values on disk.  ElementTree writes & < > " and newline   *)
(* as entities and the parser turns the entities back into characters.     *)
(***************************************************************************)
\* str.replace(c, with) behind Python's test "if c in text".
Replace(s, c, with) ==
    IF \A i \in 1..Len(s) : s[i] # c THEN s
    ELSE Concat([i \in 1..Len(s) |-> IF s[i] = c THEN with ELSE << s[i] >>])

\* Escaping that writes a newline as it is.
EscapeAttribRawNewline(s) ==
    Replace(Replace(Replace(Replace(s,
        "&",  << "&", "a", "m", "p", ";" >>),
        "<",  << "&", "l", "t", ";" >>),
        ">",  << "&", "g", "t", ";" >>),
        "\"", << "&", "q", "u", "o", "t", ";" >>)

\* ElementTree's _escape_attrib: one replacement after the other, & first.
EscapeAttrib(s) ==
    Replace(Replace(Replace(Replace(Replace(s,
        "&",  << "&", "a", "m", "p", ";" >>),
        "<",  << "&", "l", "t", ";" >>),
        ">",  << "&", "g", "t", ";" >>),
        "\"", << "&", "q", "u", "o", "t", ";" >>),
        "\n", << "&", "#", "1", "0", ";" >>)

EntityNames ==
    { << "a", "m", "p" >>, << "l", "t" >>, << "g", "t" >>,
      << "q", "u", "o", "t" >>, << "#", "1", "0" >> }

EntityChar(name) ==
    CASE name = << "a", "m", "p" >>      -> "&"
      [] name = << "l", "t" >>           -> "<"
      [] name = << "g", "t" >>           -> ">"
      [] name = << "q", "u", "o", "t" >> -> "\""
      [] name = << "#", "1", "0" >>      -> "\n"

\* Index of the first c in s at or after i, or 0.
IndexFrom(s, c, i) ==
    IF \E j \in i..Len(s) : s[j] = c
    THEN CHOOSE j \in i..Len(s) :
             s[j] = c /\ \A k \in i..(j - 1) : s[k] # c
    ELSE 0

\* What the parser accepts as an attribute value: no "<", and every "&"
\* opens an entity it knows.
RECURSIVE WellFormedAttrib(_)
WellFormedAttrib(s) ==
    LET amp == IndexFrom(s, "&", 1)
        semi == IndexFrom(s, ";", amp + 1)
    IN  IF amp = 0 THEN IndexFrom(s, "<", 1) = 0
        ELSE /\ semi # 0
             /\ SubSeq(s, amp + 1, semi - 1) \in EntityNames
             /\ IndexFrom(SubSeq(s, 1, amp - 1), "<", 1) = 0
             /\ WellFormedAttrib(SubSeq(s, semi + 1, Len(s)))

\* Attribute-value normalisation: a literal newline is read as a space.
Normalise(s) == [i \in 1..Len(s) |-> IF s[i] = "\n" THEN " " ELSE s[i]]

\* Text up to the next entity is copied; the entity becomes its character.
RECURSIVE ExpandEntities(_)
ExpandEntities(s) ==
    LET amp == IndexFrom(s, "&", 1)
        semi == IndexFrom(s, ";", amp + 1)
    IN  IF amp = 0 THEN s
        ELSE SubSeq(s, 1, amp - 1)
             \o << EntityChar(SubSeq(s, amp + 1, semi - 1)) >>
             \o ExpandEntities(SubSeq(s, semi + 1, Len(s)))

\* The value the parser hands out for a well-formed attribute text.
UnescapeAttrib(s) == ExpandEntities(Normalise(s))

(***************************************************************************)
(* XML trees.  A node is [tag, attrs, kids]; attrs is the attribute        *)
(* dictionary as a sequence of <<name, value>> pairs in insertion order,   *)
(* kids the child nodes in document order.  A node inside a tree is named  *)
(* by its path, the child indices leading to it from the top.              *)
(***************************************************************************)
Node(tag, attrs, kids) == [tag |-> tag, attrs |-> attrs, kids |-> kids]

HasAttr(attrs, key) == \E i \in 1..Len(attrs) : attrs[i][1] = key

\* Element.get(key, default)
Get(attrs, key, default) ==
    IF HasAttr(attrs, key)
    THEN attrs[CHOOSE i \in 1..Len(attrs) : attrs[i][1] = key][2]
    ELSE default

\* Element.set(key, value): an existing key keeps its place.
SetAttr(attrs, key, value) ==
    IF HasAttr(attrs, key)
    THEN [i \in 1..Len(attrs) |->
            IF attrs[i][1] = key THEN << key, value >> ELSE attrs[i]]
    ELSE Append(attrs, << key, value >>)

\* for key, value in data.items(): element.set(key, value)
RECURSIVE SetAll(_, _)
SetAll(attrs, data) ==
    IF data = <<>> THEN attrs
    ELSE SetAll(SetAttr(attrs, Head(data)[1], Head(data)[2]), Tail(data))

RECURSIVE NodeAt(_, _)
NodeAt(tree, path) ==
    IF path = <<>> THEN tree ELSE NodeAt(tree.kids[Head(path)], Tail(path))

RECURSIVE ReplaceAt(_, _, _)
ReplaceAt(tree, path, new) ==
    IF path = <<>> THEN new
    ELSE [tree EXCEPT !.kids[Head(path)] =
              ReplaceAt(tree.kids[Head(path)], Tail(path), new)]

\* Paths of the proper descendants of a node, in document order.
RECURSIVE DescPaths(_)
DescPaths(n) ==
    Concat([i \in 1..Len(n.kids) |->
              LET below == DescPaths(n.kids[i])
              IN  << << i >> >>
                  \o [j \in 1..Len(below) |-> << i >> \o below[j]]])

\* node.findall(".//tag"), as paths below the node.
FindAll(n, tag) ==
    SelectSeq(DescPaths(n), LAMBDA p : NodeAt(n, p).tag = tag)

\* node.find(".//tag"): the first match or None.
Find(n, tag) ==
    IF FindAll(n, tag) = <<>> THEN None ELSE Some(Head(FindAll(n, tag)))

\* node.find("tag"): the first child with that tag, or None.
FindChild(n, tag) ==
    IF \E i \in 1..Len(n.kids) : n.kids[i].tag = tag
    THEN Some(n.kids[CHOOSE i \in 1..Len(n.kids) :
                  /\ n.kids[i].tag = tag
                  /\ \A j \in 1..(i - 1) : n.kids[j].tag # tag])
    ELSE None

\* The quote that ends the literal of the predicate [@id='...'].
HasQuote(s) == \E i \in 1..Len(s) : s[i] = "'"

\* node.find(f".//mxCell[@id='{element_id}']") for a quote-free id: the
\* first cell in document order whose id attribute is present and equal.
FindCellById(n, element_id) ==
    LET hits == SelectSeq(FindAll(n, "mxCell"),
                          LAMBDA p : /\ HasAttr(NodeAt(n, p).attrs, "id")
                                     /\ Get(NodeAt(n, p).attrs, "id", <<>>)
                                            = element_id)
    IN  IF hits = <<>> THEN None ELSE Some(Head(hits))

(***************************************************************************)
(* The editor.  root is None or Some(tree).  diagram is None or Some(ref), *)
(* a reference to a node: ref.inRoot says that the node lives in the tree  *)
(* held as root, at ref.path; otherwise it lives in ref.orphan, a tree     *)
(* that root no longer holds.                                              *)
(***************************************************************************)
RootRef(path) == [inRoot |-> TRUE, orphan |-> None, path |-> path]

\* The tree the diagram reference points into.
DiagramDoc(r, d) == IF d[1].inRoot THEN r[1] ELSE d[1].orphan[1]

DiagramNode(r, d) == NodeAt(DiagramDoc(r, d), d[1].path)

\* The editor after the node behind self.diagram has become new.
MutateDiagram(r, d, new) ==
    IF d[1].inRoot
    THEN [root |-> Some(ReplaceAt(r[1], d[1].path, new)), diagram |-> d]
    ELSE [root |-> r,
          diagram |-> Some([d[1] EXCEPT !.orphan =
                       Some(ReplaceAt(d[1].orphan[1], d[1].path, new))])]

\* What a call leaves: its outcome, the editor's two fields, its return
\* value (None for the calls that return nothing).
Outcome(res, r, d, ret) == [res |-> res, root |-> r, diagram |-> d, ret |-> ret]

(***************************************************************************)
(* Queries.                                                                *)
(***************************************************************************)
\* The dictionary get_elements builds for one cell, as <<key, value>> pairs.
ElementData(cell) ==
    LET element_data ==
            << << "id",     Get(cell.attrs, "id", <<>>) >>,
               << "value",  Get(cell.attrs, "value", <<>>) >>,
               << "style",  Get(cell.attrs, "style", <<>>) >>,
               << "parent", Get(cell.attrs, "parent", <<>>) >>,
               << "vertex", Get(cell.attrs, "vertex", <<>>) >>,
               << "edge",   Get(cell.attrs, "edge", <<>>) >> >>
        geometry == FindChild(cell, "mxGeometry")
    IN  IF geometry = None THEN element_data
        ELSE element_data \o
             << << "x",      Get(geometry[1].attrs, "x", <<>>) >>,
                << "y",      Get(geometry[1].attrs, "y", <<>>) >>,
                << "width",  Get(geometry[1].attrs, "width", <<>>) >>,
                << "height", Get(geometry[1].attrs, "height", <<>>) >> >>

get_elements(r, d) ==
    IF d = None THEN <<>>
    ELSE LET node == DiagramNode(r, d)
             cells == FindAll(node, "mxCell")
         IN  [i \in 1..Len(cells) |-> ElementData(NodeAt(node, cells[i]))]

(***************************************************************************)
(* Mutations.                                                              *)
(***************************************************************************)
\* add_element putting the new cell first.
add_element_first(r, d, element_data) ==
    IF d = None THEN Outcome("NoDiagramLoaded", r, d, None)
    ELSE LET new_element == Node("mxCell", SetAll(<<>>, element_data), <<>>)
             node == DiagramNode(r, d)
             after == MutateDiagram(r, d,
                          [node EXCEPT !.kids = << new_element >> \o @])
         IN  Outcome("ok", after.root, after.diagram, None)

add_element(r, d, element_data) ==
    IF d = None THEN Outcome("NoDiagramLoaded", r, d, None)
    ELSE LET new_element == Node("mxCell", SetAll(<<>>, element_data), <<>>)
             node == DiagramNode(r, d)
             after == MutateDiagram(r, d,
                          [node EXCEPT !.kids = Append(@, new_element)])
         IN  Outcome("ok", after.root, after.diagram, None)

\* update_element replacing the attributes instead of merging into them.
update_element_replacing(r, d, element_id, new_data) ==
    IF d = None THEN Outcome("NoDiagramLoaded", r, d, None)
    ELSE IF HasQuote(element_id) THEN Outcome("SyntaxError", r, d, None)
    ELSE LET node == DiagramNode(r, d)
             element == FindCellById(node, element_id)
         IN  IF element = None THEN Outcome("ElementNotFound", r, d, None)
             ELSE LET cell == NodeAt(node, element[1])
                      after == MutateDiagram(r, d,
                          ReplaceAt(node, element[1],
                              [cell EXCEPT !.attrs = SetAll(<<>>, new_data)]))
                  IN  Outcome("ok", after.root, after.diagram, None)

update_element(r, d, element_id, new_data) ==
    IF d = None THEN Outcome("NoDiagramLoaded", r, d, None)
    ELSE IF HasQuote(element_id) THEN Outcome("SyntaxError", r, d, None)
    ELSE LET node == DiagramNode(r, d)
             element == FindCellById(node, element_id)
         IN  IF element = None THEN Outcome("ElementNotFound", r, d, None)
             ELSE LET cell == NodeAt(node, element[1])
                      after == MutateDiagram(r, d,
                          ReplaceAt(node, element[1],
                              [cell EXCEPT !.attrs = SetAll(@, new_data)]))
                  IN  Outcome("ok", after.root, after.diagram, None)

\* seq without its i-th element
DropAt(seq, i) == SubSeq(seq, 1, i - 1) \o SubSeq(seq, i + 1, Len(seq))

\* Element.remove(subelement) looks for the node among the children only
\* and raises ValueError when it is not one of them.
remove_element(r, d, element_id) ==
    IF d = None THEN Outcome("NoDiagramLoaded", r, d, None)
    ELSE IF HasQuote(element_id) THEN Outcome("SyntaxError", r, d, None)
    ELSE LET node == DiagramNode(r, d)
             element == FindCellById(node, element_id)
         IN  IF element = None THEN Outcome("ElementNotFound", r, d, None)
             ELSE IF Len(element[1]) # 1 THEN Outcome("NotAChild", r, d, None)
             ELSE LET after == MutateDiagram(r, d,
                          [node EXCEPT !.kids = DropAt(@, element[1][1])])
                  IN  Outcome("ok", after.root, after.diagram, None)

Latex == << "l", "a", "t", "e", "x", "_" >>

\* The style up to the base64 text.
StyleHead ==
    << "s", "h", "a", "p", "e", "=", "i", "m", "a", "g", "e", ";", "v",
       "e", "r", "t", "i", "c", "a", "l", "L", "a", "b", "e", "l", "P",
       "o", "s", "i", "t", "i", "o", "n", "=", "b", "o", "t", "t", "o",
       "m", ";", "l", "a", "b", "e", "l", "B", "a", "c", "k", "g", "r",
       "o", "u", "n", "d", "C", "o", "l", "o", "r", "=", "#", "f", "f",
       "f", "f", "f", "f", ";", "v", "e", "r", "t", "i", "c", "a", "l",
       "A", "l", "i", "g", "n", "=", "t", "o", "p", ";", "a", "s", "p",
       "e", "c", "t", "=", "f", "i", "x", "e", "d", ";", "i", "m", "a",
       "g", "e", "A", "s", "p", "e", "c", "t", "=", "0", ";", "i", "m",
       "a", "g", "e", "=", "d", "a", "t", "a", ":", "i", "m", "a", "g",
       "e", "/", "s", "v", "g", "+", "x", "m", "l", ";", "b", "a", "s",
       "e", "6", "4", "," >>

\* insert_latex_equation creating the cell before the renderer runs.
insert_latex_equation_early(r, d, position, svg_output) ==
    IF d = None THEN Outcome("NoDiagramLoaded", r, d, None)
    ELSE IF svg_output = None
    THEN LET node == DiagramNode(r, d)
             after == MutateDiagram(r, d,
                          [node EXCEPT !.kids =
                               Append(@, Node("mxCell", <<>>, <<>>))])
         IN  Outcome("RenderError", after.root, after.diagram, None)
    ELSE LET x == position[1]
             y == position[2]
             svg_base64 == B64Encode(EncodeUtf8(svg_output[1].svg))
             new_id == Latex \o IntToStr(Len(get_elements(r, d)) + 1)
             geometry ==
                 Node("mxGeometry",
                      << << "x", IntToStr(x) >>,
                         << "y", IntToStr(y) >>,
                         << "width", IntToStr(svg_output[1].width) >>,
                         << "height", IntToStr(svg_output[1].height) >>,
                         << "as", << "g", "e", "o", "m", "e", "t", "r", "y" >> >> >>,
                      <<>>)
             image_element ==
                 Node("mxCell",
                      << << "id", new_id >>,
                         << "style", StyleHead \o svg_base64 \o << ";" >> >>,
                         << "vertex", << "1" >> >>,
                         << "parent", << "1" >> >> >>,
                      << geometry >>)
             node == DiagramNode(r, d)
             after == MutateDiagram(r, d,
                          [node EXCEPT !.kids = Append(@, image_element)])
         IN  Outcome("ok", after.root, after.diagram, Some(new_id))

\* The first number from n on that no latex id of es uses.
RECURSIVE UnusedNumber(_, _)
UnusedNumber(es, n) ==
    IF \E i \in 1..Len(es) : Get(es[i], "id", <<>>) = Latex \o IntToStr(n)
    THEN UnusedNumber(es, n + 1)
    ELSE n

\* insert_latex_equation naming the cell with a number not in use.
insert_latex_equation_unused(r, d, position, svg_output) ==
    IF d = None THEN Outcome("NoDiagramLoaded", r, d, None)
    ELSE IF svg_output = None THEN Outcome("RenderError", r, d, None)
    ELSE LET x == position[1]
             y == position[2]
             svg_base64 == B64Encode(EncodeUtf8(svg_output[1].svg))
             new_id == Latex \o IntToStr(UnusedNumber(get_elements(r, d),
                                                      Len(get_elements(r, d)) + 1))
             geometry ==
                 Node("mxGeometry",
                      << << "x", IntToStr(x) >>,
                         << "y", IntToStr(y) >>,
                         << "width", IntToStr(svg_output[1].width) >>,
                         << "height", IntToStr(svg_output[1].height) >>,
                         << "as", << "g", "e", "o", "m", "e", "t", "r", "y" >> >> >>,
                      <<>>)
             image_element ==
                 Node("mxCell",
                      << << "id", new_id >>,
                         << "style", StyleHead \o svg_base64 \o << ";" >> >>,
                         << "vertex", << "1" >> >>,
                         << "parent", << "1" >> >> >>,
                      << geometry >>)
             node == DiagramNode(r, d)
             after == MutateDiagram(r, d,
                          [node EXCEPT !.kids = Append(@, image_element)])
         IN  Outcome("ok", after.root, after.diagram, Some(new_id))

\* svg_output is what latex2svg did: None when it raised, else
\* Some([svg, width, height]).
insert_latex_equation(r, d, position, svg_output) ==
    IF d = None THEN Outcome("NoDiagramLoaded", r, d, None)
    ELSE IF svg_output = None THEN Outcome("RenderError", r, d, None)
    ELSE LET x == position[1]
             y == position[2]
             svg_base64 == B64Encode(EncodeUtf8(svg_output[1].svg))
             new_id == Latex \o IntToStr(Len(get_elements(r, d)) + 1)
             geometry ==
                 Node("mxGeometry",
                      << << "x", IntToStr(x) >>,
                         << "y", IntToStr(y) >>,
                         << "width", IntToStr(svg_output[1].width) >>,
                         << "height", IntToStr(svg_output[1].height) >>,
                         << "as", << "g", "e", "o", "m", "e", "t", "r", "y" >> >> >>,
                      <<>>)
             image_element ==
                 Node("mxCell",
                      << << "id", new_id >>,
                         << "style", StyleHead \o svg_base64 \o << ";" >> >>,
                         << "vertex", << "1" >> >>,
                         << "parent", << "1" >> >> >>,
                      << geometry >>)
             node == DiagramNode(r, d)
             after == MutateDiagram(r, d,
                          [node EXCEPT !.kids = Append(@, image_element)])
         IN  Outcome("ok", after.root, after.diagram, Some(new_id))

default_elements ==
    << << << "id", << "0" >> >> >>,
       << << "id", << "1" >> >>, << "parent", << "0" >> >> >> >>

\* create_new that keeps a held diagram and adds the default cells to it.
create_new_kept(r, d) ==
    LET page == Node("diagram",
                     << << "id", << "1" >> >>,
                        << "name", << "P", "a", "g", "e", "-", "1" >> >> >>,
                     <<>>)
        fresh == IF d = None
                 THEN Outcome("ok", Some(Node("mxfile", <<>>, << page >>)),
                              Some(RootRef(<< 1 >>)), None)
                 ELSE Outcome("ok", r, d, None)
        first == add_element(fresh.root, fresh.diagram, default_elements[1])
    IN  IF first.res # "ok" THEN first
        ELSE add_element(first.root, first.diagram, default_elements[2])

create_new(r, d) ==
    LET page == Node("diagram",
                     << << "id", << "1" >> >>,
                        << "name", << "P", "a", "g", "e", "-", "1" >> >> >>,
                     <<>>)
        fresh == Outcome("ok", Some(Node("mxfile", <<>>, << page >>)),
                         Some(RootRef(<< 1 >>)), None)
        first == add_element(fresh.root, fresh.diagram, default_elements[1])
    IN  IF first.res # "ok" THEN first
        ELSE add_element(first.root, first.diagram, default_elements[2])

(***************************************************************************)
(* Files.  A file is absent, not well-formed, or the markup of a tree: the *)
(* same nodes with the attribute values in their escaped form, and with    *)
(* comment nodes (tag "#comment"), which the parser drops.                 *)
(***************************************************************************)
NoFile == [kind |-> "none", doc |-> None]

Garbage == [kind |-> "garbage", doc |-> None]

XmlFile(markup) == [kind |-> "xml", doc |-> Some(markup)]

RECURSIVE WellFormed(_)
WellFormed(m) ==
    /\ \A i \in 1..Len(m.attrs) : WellFormedAttrib(m.attrs[i][2])
    /\ \A i \in 1..Len(m.kids) : WellFormed(m.kids[i])

\* ET.parse on well-formed markup.
RECURSIVE ParseNode(_)
ParseNode(m) ==
    LET elems == SelectSeq(m.kids, LAMBDA k : k.tag # "#comment")
    IN  Node(m.tag,
             [i \in 1..Len(m.attrs) |->
                << m.attrs[i][1], UnescapeAttrib(m.attrs[i][2]) >>],
             [i \in 1..Len(elems) |-> ParseNode(elems[i])])

\* ElementTree.write
RECURSIVE Serialize(_)
Serialize(n) ==
    Node(n.tag,
         [i \in 1..Len(n.attrs) |-> << n.attrs[i][1], EscapeAttrib(n.attrs[i][2]) >>],
         [i \in 1..Len(n.kids) |-> Serialize(n.kids[i])])

\* load that assigns self.diagram only when a diagram node was found, so a
\* reference held before stays, pointing into the tree root has let go of.
load_found_only(r, d, file) ==
    IF file.kind = "none" THEN Outcome("FileNotFound", r, d, None)
    ELSE IF file.kind = "garbage" \/ ~WellFormed(file.doc[1])
    THEN Outcome("ParseError", r, d, None)
    ELSE LET tree == ParseNode(file.doc[1])
             found == Find(tree, "diagram")
             kept == IF d = None \/ ~d[1].inRoot THEN d
                     ELSE Some([inRoot |-> FALSE, orphan |-> r,
                                path |-> d[1].path])
         IN  IF found = None
             THEN Outcome("NoDiagramFound", Some(tree), kept, None)
             ELSE Outcome("ok", Some(tree), Some(RootRef(found[1])), None)

load(r, d, file) ==
    IF file.kind = "none" THEN Outcome("FileNotFound", r, d, None)
    ELSE IF file.kind = "garbage" \/ ~WellFormed(file.doc[1])
    THEN Outcome("ParseError", r, d, None)
    ELSE LET tree == ParseNode(file.doc[1])
             found == Find(tree, "diagram")
         IN  IF found = None
             THEN Outcome("NoDiagramFound", Some(tree), None, None)
             ELSE Outcome("ok", Some(tree), Some(RootRef(found[1])), None)

\* save leaves the editor alone; written is None or Some(file).
save(r, d) ==
    IF r = None
    THEN [res |-> "NoContent", root |-> r, diagram |-> d, ret |-> None,
          written |-> None]
    ELSE [res |-> "ok", root |-> r, diagram |-> d, ret |-> None,
          written |-> Some(XmlFile(Serialize(r[1])))]

(***************************************************************************)
(* The files on disk at the start, as markup.                              *)
(***************************************************************************)
Geometry(x, y, width, height) ==
    Node("mxGeometry",
         << << "x", x >>, << "y", y >>, << "width", width >>,
            << "height", height >>,
            << "as", << "g", "e", "o", "m", "e", "t", "r", "y" >> >> >>,
         <<>>)

\* Cells directly below the diagram node; cell 2 is labelled a&b.
FlatMarkup ==
    Node("mxfile", <<>>,
      << Node("diagram", << << "id", << "d" >> >> >>,
           << Node("mxCell", << << "id", << "1" >> >>,
                                << "parent", << "0" >> >> >>, <<>>),
              Node("mxCell",
                   << << "id", << "2" >> >>,
                      << "value", << "a", "&", "a", "m", "p", ";", "b" >> >>,
                      << "parent", << "1" >> >>,
                      << "vertex", << "1" >> >> >>,
                   << Geometry(<< "1" >>, << "2" >>, << "3" >>, << "4" >>) >>) >>) >>)

\* The layout diagrams.net writes: the cells sit below
\* diagram/mxGraphModel/root.  Cell 2 is labelled <b> and ends its line.
NestedMarkup ==
    Node("mxfile", <<>>,
      << Node("#comment", <<>>, <<>>),
         Node("diagram", << << "id", << "d" >> >> >>,
           << Node("mxGraphModel", <<>>,
                << Node("root", <<>>,
                     << Node("mxCell", << << "id", << "0" >> >> >>, <<>>),
                        Node("mxCell",
                             << << "id", << "2" >> >>,
                                << "value", << "&", "l", "t", ";", "b", "&",
                                               "g", "t", ";", "&", "#", "1",
                                               "0", ";" >> >>,
                                << "parent", << "0" >> >>,
                                << "edge", << "1" >> >> >>,
                             <<>>) >>) >>) >>) >>)

\* Well-formed XML without a diagram node.
NoDiagramMarkup ==
    Node("mxGraphModel", <<>>,
      << Node("root", <<>>,
           << Node("mxCell", << << "id", << "0" >> >> >>, <<>>) >>) >>)

OutPath == "out.drawio"

Paths == { "flat.drawio", "nested.drawio", "nodiagram.xml", "broken.drawio",
           OutPath }

InitialFiles ==
    [p \in Paths |->
        CASE p = "flat.drawio"    -> XmlFile(FlatMarkup)
          [] p = "nested.drawio"  -> XmlFile(NestedMarkup)
          [] p = "nodiagram.xml"  -> XmlFile(NoDiagramMarkup)
          [] p = "broken.drawio"  -> Garbage
          [] OTHER                -> NoFile]

(***************************************************************************)
(* The calls.  last records the latest call: its name, its arguments, its  *)
(* outcome and its return value.                                           *)
(***************************************************************************)
NoCall == [op |-> "none", res |-> "ok", ret |-> None, id |-> <<>>,
           data |-> <<>>, path |-> "", position |-> <<>>, svg_output |-> None]

Init ==
    /\ root = None
    /\ diagram = None
    /\ fs = InitialFiles
    /\ last = NoCall

\* The number of cells get_elements reports.
CellCount == Len(get_elements(root, diagram))

\* A call's outcome is worked out once and then stored.
Apply(out, call) ==
    /\ root' = out.root
    /\ diagram' = out.diagram
    /\ last' = [call EXCEPT !.res = out.res, !.ret = out.ret]

Load(file_path) ==
    /\ \E out \in { load(root, diagram, fs[file_path]) } :
          Apply(out, [NoCall EXCEPT !.op = "load", !.path = file_path])
    /\ UNCHANGED fs

Save(file_path) ==
    \E out \in { save(root, diagram) } :
       /\ Apply(out, [NoCall EXCEPT !.op = "save", !.path = file_path])
       /\ fs' = IF out.written = None THEN fs
                ELSE [fs EXCEPT ![file_path] = out.written[1]]

AddElement(element_data) ==
    /\ \E out \in { add_element(root, diagram, element_data) } :
          Apply(out, [NoCall EXCEPT !.op = "add_element",
                                    !.data = element_data])
    /\ UNCHANGED fs

UpdateElement(element_id, new_data) ==
    /\ \E out \in { update_element(root, diagram, element_id, new_data) } :
          Apply(out, [NoCall EXCEPT !.op = "update_element",
                                    !.id = element_id, !.data = new_data])
    /\ UNCHANGED fs

RemoveElement(element_id) ==
    /\ \E out \in { remove_element(root, diagram, element_id) } :
          Apply(out, [NoCall EXCEPT !.op = "remove_element",
                                    !.id = element_id])
    /\ UNCHANGED fs

InsertLatexEquation(position, svg_output) ==
    /\ \E out \in { insert_latex_equation(root, diagram, position, svg_output) } :
          Apply(out, [NoCall EXCEPT !.op = "insert_latex_equation",
                                    !.position = position,
                                    !.svg_output = svg_output])
    /\ UNCHANGED fs

CreateNew ==
    /\ \E out \in { create_new(root, diagram) } :
          Apply(out, [NoCall EXCEPT !.op = "create_new"])
    /\ UNCHANGED fs

(***************************************************************************)
(* The arguments the calls are tried with.                                 *)
(***************************************************************************)
AddInputs ==
    { << << "id", << "0" >> >> >>,
      << << "id", << "7" >> >>, << "value", << "a", "&", "b" >> >>,
         << "parent", << "1" >> >> >> }

UpdateIds == { << "1" >>, << "2" >>, << "a", "'", "b" >> }

\* One key the cells have only sometimes and one none of them has.
UpdateInputs ==
    { << << "value", << "v", "2" >> >>,
         << "style", << "r", "o", "u", "n", "d", "e", "d", "=", "1", ";" >> >> >> }

RemoveIds == { << "0" >>, << "2" >>, Latex \o << "3" >>, Latex \o << "4" >> }

Positions == { << 10, -5 >> }

\* "<svg/>" and "<svg />"
SvgOutputs ==
    { [svg |-> << "<", "s", "v", "g", "/", ">" >>, width |-> 50, height |-> 20],
      [svg |-> << "<", "s", "v", "g", " ", "/", ">" >>, width |-> 7,
       height |-> 120] }

Renderings == { None } \cup { Some(o) : o \in SvgOutputs }

(***************************************************************************)
(* Editing a diagram that was loaded or created: every call but save, so   *)
(* the files stay as they were.  Cells are added while the diagram has     *)
(* fewer than MaxCells of them.                                            *)
(***************************************************************************)
Next ==
    \/ \E p \in Paths : Load(p)
    \/ CreateNew
    \/ CellCount < MaxCells /\ \E e \in AddInputs : AddElement(e)
    \/ \E i \in UpdateIds, f \in UpdateInputs : UpdateElement(i, f)
    \/ \E i \in RemoveIds : RemoveElement(i)
    \/ CellCount < MaxCells /\ \E p \in Positions, o \in Renderings :
                                    InsertLatexEquation(p, o)

Spec == Init /\ [][Next]_vars

(***************************************************************************)
(* Every call, save to OutPath included, with fewer arguments and cells    *)
(* added while the diagram has fewer than MaxFileCells of them.            *)
(***************************************************************************)
FileAddInputs == { << << "id", << "7" >> >>, << "value", << "a", "&", "b" >> >>,
                      << "parent", << "1" >> >> >> }

FileUpdateIds == { << "2" >> }

FileRemoveIds == { << "2" >> }

FileRenderings == { None, Some([svg |-> << "<", "s", "v", "g", "/", ">" >>,
                                width |-> 50, height |-> 20]) }

NextFiles ==
    \/ \E p \in Paths : Load(p)
    \/ Save(OutPath)
    \/ CreateNew
    \/ CellCount < MaxFileCells /\ \E e \in FileAddInputs : AddElement(e)
    \/ \E i \in FileUpdateIds, f \in UpdateInputs : UpdateElement(i, f)
    \/ \E i \in FileRemoveIds : RemoveElement(i)
    \/ CellCount < MaxFileCells /\ \E p \in Positions, o \in FileRenderings :
                                        InsertLatexEquation(p, o)

SpecFiles == Init /\ [][NextFiles]_vars

(***************************************************************************)
(* Insertions and removals on a created diagram only, while the diagram    *)
(* has fewer than MaxLatexCells cells.                                     *)
(***************************************************************************)
NextLatex ==
    \/ CreateNew
    \/ \E i \in RemoveIds : RemoveElement(i)
    \/ CellCount < MaxLatexCells /\ \E p \in Positions, o \in Renderings :
                                    InsertLatexEquation(p, o)

SpecLatex == Init /\ [][NextLatex]_vars

(***************************************************************************)
(* Properties.  Elements is get_elements() before a step or in a state,    *)
(* ElementsAfter the same after the step.                                  *)
(***************************************************************************)
Elements == get_elements(root, diagram)

ElementsAfter == get_elements(root', diagram')

\* The indices of the elements of es whose id is id.
WithId(es, id) == { i \in 1..Len(es) : Get(es[i], "id", <<>>) = id }

Mutators == { "add_element", "update_element", "remove_element",
              "insert_latex_equation", "save" }

\* path leads to a node of tree
RECURSIVE ValidPath(_, _)
ValidPath(tree, path) ==
    \/ path = <<>>
    \/ /\ Head(path) \in 1..Len(tree.kids)
       /\ ValidPath(tree.kids[Head(path)], Tail(path))

\* C1: whenever remove_element(id) is called with a diagram held in which
\* exactly one element of get_elements() has that id, the call succeeds,
\* get_elements() afterwards has no element with that id, and a second
\* remove_element(id) fails with the element-not-found error.
C1_RemoveListedElement ==
    [][ ( /\ last'.op = "remove_element"
          /\ Cardinality(WithId(Elements, last'.id)) = 1 )
        => ( /\ last'.res = "ok"
             /\ WithId(ElementsAfter, last'.id) = {}
             /\ remove_element(root', diagram', last'.id).res
                    = "ElementNotFound" ) ]_vars

\* The keys of a dictionary given as pairs.
Keys(data) == { data[i][1] : i \in 1..Len(data) }

\* C2: a successful update_element(id, fields) merges into exactly one
\* element, the first one with that id: its attributes named in fields take
\* the new values, its other attributes and its children (the geometry) stay,
\* no attribute appears or disappears otherwise, and every other node, the
\* diagram reference, the element count and the document order are unchanged.
C2_UpdateMergesOneElement ==
    [][ (last'.op = "update_element" /\ last'.res = "ok")
        => \E es \in { Elements }, esAfter \in { ElementsAfter },
              node \in { DiagramNode(root, diagram) } :
           \E first \in WithId(es, last'.id) :
           \E where \in { FindAll(node, "mxCell")[first] } :
           \E before \in { NodeAt(node, where) },
              after \in { NodeAt(DiagramNode(root', diagram'), where) } :
               /\ \A j \in WithId(es, last'.id) : first <= j
               /\ \A i \in 1..Len(last'.data) :
                     Get(after.attrs, last'.data[i][1], <<>>) = last'.data[i][2]
               /\ Keys(after.attrs) = Keys(before.attrs) \cup Keys(last'.data)
               /\ \A k \in Keys(before.attrs) \ Keys(last'.data) :
                     Get(after.attrs, k, <<>>) = Get(before.attrs, k, <<>>)
               /\ after.tag = before.tag
               /\ after.kids = before.kids
               /\ diagram' = diagram
               /\ root' = Some(ReplaceAt(root[1], diagram[1].path \o where, after))
               /\ Len(esAfter) = Len(es)
               /\ \A i \in 1..Len(es) : i # first => esAfter[i] = es[i] ]_vars

\* C2 witness: the latest call updated cell 2, which has a geometry and a
\* parent attribute the call did not name.
C2_Witness ==
    /\ last.op = "update_element"
    /\ last.res = "ok"
    /\ \E i \in WithId(Elements, last.id) :
          /\ Get(Elements[i], "value", <<>>) = << "v", "2" >>
          /\ Get(Elements[i], "parent", <<>>) = << "1" >>
          /\ Get(Elements[i], "x", <<>>) = << "1" >>

\* The elements of es that get_elements() reports for a cell carrying
\* exactly the attributes of fields.
Matching(es, fields) ==
    { i \in 1..Len(es) : es[i] = ElementData(Node("mxCell", fields, <<>>)) }

\* C3 as stated: after a successful add_element(fields), get_elements() has
\* exactly one element whose attributes match fields.
C3_ExactlyOneMatch ==
    [][ (last'.op = "add_element" /\ last'.res = "ok")
        => Cardinality(Matching(ElementsAfter, last'.data)) = 1 ]_vars

\* C3 amended: a successful add_element(fields) appends one cell carrying
\* exactly the attributes of fields as the last child of the diagram node
\* and changes nothing else, so get_elements() is the former sequence
\* followed by that element and has one more element matching fields than
\* before.
C3_AddAppendsOne ==
    [][ (last'.op = "add_element" /\ last'.res = "ok")
        => \E es \in { Elements }, esAfter \in { ElementsAfter },
              node \in { DiagramNode(root, diagram) },
              new \in { Node("mxCell", last'.data, <<>>) } :
               /\ diagram' = diagram
               /\ root' = Some(ReplaceAt(root[1], diagram[1].path,
                                  [node EXCEPT !.kids = Append(@, new)]))
               /\ esAfter = Append(es, ElementData(new))
               /\ Cardinality(Matching(esAfter, last'.data))
                      = Cardinality(Matching(es, last'.data)) + 1 ]_vars

\* C3 witness: an element was added whose attributes an earlier element
\* already had.
C3_Witness ==
    /\ last.op = "add_element"
    /\ last.res = "ok"
    /\ Cardinality(Matching(Elements, last.data)) = 2

\* C4: a failed add_element, update_element, remove_element,
\* insert_latex_equation or save leaves the document, the diagram reference,
\* what get_elements() returns and the files as they were.
C4_FailureChangesNothing ==
    [][ (last'.op \in Mutators /\ last'.res # "ok")
        => /\ root' = root
           /\ diagram' = diagram
           /\ ElementsAfter = Elements
           /\ fs' = fs ]_vars

\* C4 witness: the renderer raised while a diagram of two elements, one of
\* them updated before, was held.
C4_Witness ==
    /\ last.op = "insert_latex_equation"
    /\ last.res = "RenderError"
    /\ Len(Elements) = 2
    /\ \E i \in 1..2 : Get(Elements[i], "value", <<>>) = << "v", "2" >>

\* C5: a failed load leaves the document and the diagram reference as they
\* were.
C5_FailedLoadChangesNothing ==
    [][ (last'.op = "load" /\ last'.res # "ok")
        => (root' = root /\ diagram' = diagram) ]_vars

\* sub occurs in s
Contains(s, sub) ==
    \E i \in 1..(Len(s) - Len(sub) + 1) : SubSeq(s, i, i + Len(sub) - 1) = sub

\* Decimal numerals and base64 texts written out for the values used.
Numeral(n) ==
    CASE n = -5  -> << "-", "5" >>
      [] n = 1   -> << "1" >>
      [] n = 2   -> << "2" >>
      [] n = 3   -> << "3" >>
      [] n = 4   -> << "4" >>
      [] n = 5   -> << "5" >>
      [] n = 6   -> << "6" >>
      [] n = 7   -> << "7" >>
      [] n = 10  -> << "1", "0" >>
      [] n = 20  -> << "2", "0" >>
      [] n = 50  -> << "5", "0" >>
      [] n = 120 -> << "1", "2", "0" >>

Base64Text(svg) ==
    CASE svg = << "<", "s", "v", "g", "/", ">" >>
             -> << "P", "H", "N", "2", "Z", "y", "8", "+" >>
      [] svg = << "<", "s", "v", "g", " ", "/", ">" >>
             -> << "P", "H", "N", "2", "Z", "y", "A", "v", "P", "g", "=", "=" >>

\* C6: a successful insert_latex_equation(equation, (x, y)) on a diagram of
\* n elements appends one element and returns its id "latex_" + (n + 1); the
\* element has x = str(x), y = str(y), the rendered width and height, parent
\* "1", vertex "1" and a style containing the base64 text of the svg; the n
\* earlier elements are unchanged.
C6_InsertAppendsImage ==
    [][ (last'.op = "insert_latex_equation" /\ last'.res = "ok")
        => \E es \in { Elements }, esAfter \in { ElementsAfter },
              out \in { last'.svg_output[1] } :
           \E n \in { Len(es) } :
               /\ Len(esAfter) = n + 1
               /\ SubSeq(esAfter, 1, n) = es
               /\ last'.ret = Some(Latex \o Numeral(n + 1))
               /\ Get(esAfter[n + 1], "id", <<>>) = Latex \o Numeral(n + 1)
               /\ Get(esAfter[n + 1], "x", <<>>) = Numeral(last'.position[1])
               /\ Get(esAfter[n + 1], "y", <<>>) = Numeral(last'.position[2])
               /\ Get(esAfter[n + 1], "width", <<>>) = Numeral(out.width)
               /\ Get(esAfter[n + 1], "height", <<>>) = Numeral(out.height)
               /\ Get(esAfter[n + 1], "parent", <<>>) = << "1" >>
               /\ Get(esAfter[n + 1], "vertex", <<>>) = << "1" >>
               /\ Contains(Get(esAfter[n + 1], "style", <<>>),
                           Base64Text(out.svg)) ]_vars

\* C6 witness: "<svg/>" of 50 by 20 was inserted into a diagram that had
\* two elements.
C6_Witness ==
    /\ last.op = "insert_latex_equation"
    /\ last.res = "ok"
    /\ last.svg_output[1].svg = << "<", "s", "v", "g", "/", ">" >>
    /\ Len(Elements) = 3

\* C7: create_new() succeeds from every state and leaves a document that is
\* just the new one: an mxfile holding one diagram node (id "1", name
\* "Page-1") for which get_elements() returns the elements "0" and "1", in
\* that order, "1" with parent "0".
C7_CreateNewSkeleton ==
    last.op = "create_new"
    => /\ last.res = "ok"
       /\ root # None /\ diagram = Some(RootRef(<< 1 >>))
       /\ root[1].tag = "mxfile" /\ Len(root[1].kids) = 1
       /\ root[1].kids[1].tag = "diagram"
       /\ root[1].kids[1].attrs
              = << << "id", << "1" >> >>,
                   << "name", << "P", "a", "g", "e", "-", "1" >> >> >>
       /\ Len(Elements) = 2
       /\ Get(Elements[1], "id", <<>>) = << "0" >>
       /\ Get(Elements[2], "id", <<>>) = << "1" >>
       /\ Get(Elements[2], "parent", <<>>) = << "0" >>

\* C7 witness: create_new() was called after a document had been held and
\* saved.
C7_Witness ==
    /\ last.op = "create_new"
    /\ fs[OutPath].kind = "xml"

\* C8: a save that directly follows a successful load succeeds and changes
\* nothing in the held document, and loading the file it wrote, in this
\* editor or in a fresh one, gives the get_elements() sequence the first
\* load gave.
C8_RoundTrip ==
    [][ (last.op = "load" /\ last.res = "ok" /\ last'.op = "save")
        => /\ last'.res = "ok"
           /\ root' = root
           /\ diagram' = diagram
           /\ \A again \in { load(root', diagram', fs'[last'.path]),
                             load(None, None, fs'[last'.path]) } :
                 /\ again.res = "ok"
                 /\ get_elements(again.root, again.diagram) = Elements ]_vars

\* C8 witness: the document of nested.drawio, whose cell 2 is labelled with
\* markup characters and a newline, is held as loaded and is what the file
\* at OutPath holds.
C8_Witness ==
    /\ last.op = "save"
    /\ last.res = "ok"
    /\ root = Some(ParseNode(NestedMarkup))
    /\ fs[OutPath] = XmlFile(Serialize(root[1]))

C10_DiagramInDocument ==
    diagram # None
    => /\ root # None
       /\ diagram[1].inRoot
       /\ ValidPath(root[1], diagram[1].path)
       /\ NodeAt(root[1], diagram[1].path).tag = "diagram"
       /\ \E again \in { load(None, None, save(root, diagram).written[1]) } :
             /\ again.res = "ok"
             /\ get_elements(again.root, again.diagram) = Elements

\* C10 witness: an edited diagram that was saved, loaded again and edited
\* once more.
C10_Witness ==
    /\ diagram # None
    /\ fs[OutPath].kind = "xml"
    /\ last.op = "insert_latex_equation"
    /\ last.res = "ok"
    /\ Len(Elements) = 3

====
